---- MODULE Spec2Model ----
(***************************************************************************)
(* skillcart backend: the lecture controller, the wishlist controller and  *)
(* the enrollment router, as state machines over the document store.       *)
(*                                                                         *)
(* Every handler is an async function: the code between two awaits runs    *)
(* without interruption, and each awaited database operation is one        *)
(* atomic step of the store.  An action below is one such step: the        *)
(* database operation together with the synchronous code that follows it   *)
(* up to the next await (or up to the response).  Requests of concurrent   *)
(* clients interleave at these steps.                                      *)
(*                                                                         *)
(* An optional JSON field / JS value is a sequence: <<>> is undefined,     *)
(* <<v>> is the value v.  JSON numbers are integers in this model.         *)
(***************************************************************************)
EXTENDS Integers, Sequences, FiniteSets, TLC

VARIABLES
    lectures,     \* Lecture collection: _id -> document
    created,      \* number of Lecture documents inserted so far (next fresh _id)
    enrollments,  \* Enrollment collection: set of <<user, course>>
    slots,        \* lecture requests in flight: slot -> handler frame
    last,         \* the response sent most recently by a lecture handler
    nreq,         \* number of lecture requests received
    wishlists,    \* Wishlist collection: _id -> document
    maxInflight,  \* wishlist requests the server is given at a time
    wslots,       \* wishlist requests in flight: slot -> handler frame
    wlast,        \* the response sent most recently by a wishlist handler
    wreq,         \* number of wishlist requests received
    req,          \* the request the enrollment router is dispatching
    layer,        \* position in the router's stack
    ran,          \* the middleware and controllers run for the request
    status        \* the response of the enrollment router

lvars == <<lectures, created, enrollments, slots, last, nreq>>
wvars == <<wishlists, maxInflight, wslots, wlast, wreq>>
rvars == <<req, layer, ran, status>>
vars == <<lvars, wvars, rvars>>

\* the parts of the system a specification does not exercise
NoLectureRequests ==
    /\ lectures = <<>> /\ created = 0 /\ enrollments = {}
    /\ slots = <<>> /\ last = <<>> /\ nreq = 0
NoWishlistRequests ==
    /\ wishlists = <<>> /\ maxInflight = 0
    /\ wslots = <<>> /\ wlast = <<>> /\ wreq = 0
NoRouterRequests ==
    /\ req = <<>> /\ layer = 0 /\ ran = <<>> /\ status = ""

-----------------------------------------------------------------------------
(* Bounds *)

\* lecture requests received in one behaviour
MaxRequests == 2

-----------------------------------------------------------------------------
(* The documents the lecture controller reads but never writes *)

Slots == {1, 2}

\* users that pass the authentication in front of the mutating routes
Instructors == {"u1", "u2"}
Admins == {"admin"}
Students == {"stu1", "stu2"}

Role(u) ==
    IF u \in Admins THEN "admin"
    ELSE IF u \in Instructors THEN "instructor" ELSE "student"

\* Course documents: instructor and published flag
Courses ==
    [c \in {"c1", "c2"} |->
        IF c = "c1" THEN [instructor |-> "u1", published |-> TRUE]
                    ELSE [instructor |-> "u2", published |-> FALSE]]

\* Section documents: the course each belongs to
Sections == [s \in {"s1", "s2"} |-> [course |-> IF s = "s1" THEN "c1" ELSE "c2"]]

\* _id of the k-th Lecture document inserted by Lecture.create
FreshIds == <<"n1", "n2", "n3", "n4", "n5", "n6">>

\* strings that cast to an ObjectId; any other string makes the query
\* reject with a CastError
ObjectIds ==
    {"l1", "l2", "l3", "l9", "s1", "s2", "s9", "c1", "c2", "c9"}
        \cup {FreshIds[i] : i \in 1..Len(FreshIds)}

IsObjectId(id) == id \in ObjectIds

\* z.string().url()
IsUrl(u) == u \in {"https://cdn.example/v1.mp4"}

\* z.string().min(3)
MinTitleLen == 3

Title == <<"a", "b", "c">>
Title2 == <<"x", "y", "z", "w">>
ShortTitle == <<"a", "b">>

Body(t, v, d, p, o) ==
    [title |-> t, videoUrl |-> v, duration |-> d, isPreview |-> p, order |-> o]

NoBody == Body(<<>>, <<>>, <<>>, <<>>, <<>>)

NoLecture ==
    [section |-> "", title |-> <<>>, videoUrl |-> <<>>, duration |-> <<>>,
     isPreview |-> FALSE, order |-> 0]

\* request bodies sent to createLecture
CreateBodies ==
    { Body(<<Title>>, <<>>, <<>>, <<>>, <<>>),
      Body(<<Title>>, <<"https://cdn.example/v1.mp4">>, <<5>>, <<TRUE>>, <<0>>),
      Body(<<ShortTitle>>, <<>>, <<>>, <<>>, <<1>>) }

\* request bodies sent to updateLecture
UpdateBodies ==
    { NoBody,
      Body(<<Title2>>, <<>>, <<>>, <<FALSE>>, <<>>),
      Body(<<>>, <<"https://cdn.example/v1.mp4">>, <<7>>, <<>>, <<3>>),
      Body(<<>>, <<"not a url">>, <<>>, <<>>, <<-1>>) }

\* :sectionId and :id route parameters: a document, a well-formed id of no
\* document, a string that is no ObjectId
SectionParams == {"s1", "s9", "bad"}
LectureParams == {"l1", "l2", "l9", "bad"}

\* lectureIds arrays sent to reorderLectures: empty, the section's lectures
\* permuted, only some of them, one twice, one of another section, one that
\* is no ObjectId
ReorderLists ==
    { <<>>, <<"l2", "l1">>, <<"l2">>, <<"l1", "l1">>, <<"l1", "l3">>,
      <<"l2", "bad">> }

-----------------------------------------------------------------------------
(* Validation schemas *)

createLectureSchema(b) ==
    /\ Len(b.title) = 1 /\ Len(b.title[1]) >= MinTitleLen
    /\ Len(b.videoUrl) = 1 => IsUrl(b.videoUrl[1])
    /\ Len(b.duration) = 1 => b.duration[1] >= 0
    /\ Len(b.order) = 1 => b.order[1] >= 0

updateLectureSchema(b) ==
    /\ Len(b.title) = 1 => Len(b.title[1]) >= MinTitleLen
    /\ Len(b.videoUrl) = 1 => IsUrl(b.videoUrl[1])
    /\ Len(b.duration) = 1 => b.duration[1] >= 0
    /\ Len(b.order) = 1 => b.order[1] >= 0

\* z.array(z.string()).min(1)
reorderSchema(ids) == Len(ids) >= 1

\* course.instructor.toString() === req.user._id.toString() || role === 'admin'
IsInstructorOrAdmin(course, u) ==
    Courses[course].instructor = u \/ Role(u) = "admin"

-----------------------------------------------------------------------------
(* Handler frames *)

Idle ==
    [pc |-> "idle", handler |-> "none", user |-> <<>>, param |-> "",
     body |-> NoBody, ids |-> <<>>, found |-> FALSE, doc |-> NoLecture,
     lectureOrder |-> 0, pending |-> {}, rejected |-> FALSE,
     dirty |-> FALSE, sent |-> 0]

NoResponse == [req |-> Idle, resp |-> "none", result |-> <<>>]

\* ApiResponse.<kind>(...).send(res): one more response of frame s is on the wire
Send(s, kind, res) ==
    last' = [req |-> s, resp |-> kind, result |-> res]

\* return ApiResponse.<kind>(...).send(res): the handler ends
Return(r, s, kind, res) ==
    /\ Send([s EXCEPT !.sent = s.sent + 1], kind, res)
    /\ slots' = [slots EXCEPT ![r] = Idle]

\* the handler goes on to its next await
Await(r, s, pc) ==
    /\ slots' = [slots EXCEPT ![r] = [s EXCEPT !.pc = pc]]
    /\ UNCHANGED last

\* a request arrives and gets the first free frame
Accept(r) ==
    /\ slots[r].pc = "idle"
    /\ \A q \in Slots : slots[q].pc = "idle" => r <= q
    /\ nreq < MaxRequests
    /\ nreq' = nreq + 1

Frame(h, u, p, b, ids) ==
    [Idle EXCEPT !.handler = h, !.user = u, !.param = p, !.body = b, !.ids = ids]

SectionLectures(sid) == {l \in DOMAIN lectures : lectures[l].section = sid}

\* Lecture.find({ section }).sort({ order: 1 }): ties in order come in any sequence
SortedLectures(sid) ==
    LET S == SectionLectures(sid)
        n == Cardinality(S)
    IN  { [i \in 1..n |-> [id |-> q[i], order |-> lectures[q[i]].order]] :
            q \in { p \in [1..n -> S] :
                      /\ \A i, j \in 1..n : i # j => p[i] # p[j]
                      /\ \A i, j \in 1..n :
                            i < j => lectures[p[i]].order <= lectures[p[j]].order } }

-----------------------------------------------------------------------------
(* createLecture *)

createLecture(r, u, sid, b) ==
    /\ Accept(r)
    /\ LET s == Frame("createLecture", <<u>>, sid, b, <<>>)
       IN  IF ~createLectureSchema(b)
           THEN Return(r, s, "badRequest", <<>>)
           ELSE Await(r, s, "create_section")
    /\ UNCHANGED <<lectures, created, enrollments, wvars, rvars>>

\* Section.findById(sectionId).populate('course'), then the checks
createLecture_findSection(r) ==
    /\ slots[r].pc = "create_section"
    /\ LET s == slots[r]
           f == [s EXCEPT !.found = TRUE]
       IN  IF ~IsObjectId(s.param)
           THEN Return(r, s, "serverError", <<>>)
           ELSE IF s.param \notin DOMAIN Sections
           THEN Return(r, s, "notFound", <<>>)
           ELSE IF ~IsInstructorOrAdmin(Sections[s.param].course, s.user[1])
           THEN Return(r, f, "forbidden", <<>>)
           ELSE IF Len(s.body.order) = 0
           THEN Await(r, f, "create_last")
           ELSE Await(r, [f EXCEPT !.lectureOrder = s.body.order[1]], "create_insert")
    /\ UNCHANGED <<lectures, created, enrollments, wvars, rvars, nreq>>

MaxOrder(S) ==
    CHOOSE m \in {lectures[l].order : l \in S} :
        \A l \in S : lectures[l].order <= m

\* Lecture.findOne({ section }).sort({ order: -1 })
createLecture_findLast(r) ==
    /\ slots[r].pc = "create_last"
    /\ LET s == slots[r]
           S == SectionLectures(s.param)
           o == IF S = {} THEN 0 ELSE MaxOrder(S) + 1
       IN  Await(r, [s EXCEPT !.lectureOrder = o], "create_insert")
    /\ UNCHANGED <<lectures, created, enrollments, wvars, rvars, nreq>>

NewLecture(s) ==
    [section |-> s.param,
     title |-> s.body.title[1],
     videoUrl |-> s.body.videoUrl,
     duration |-> s.body.duration,
     isPreview |-> IF Len(s.body.isPreview) = 1 THEN s.body.isPreview[1] ELSE FALSE,
     order |-> s.lectureOrder]

\* Lecture.create({...})
createLecture_create(r) ==
    /\ slots[r].pc = "create_insert"
    /\ created < Len(FreshIds)
    /\ LET s == slots[r]
           id == FreshIds[created + 1]
       IN  /\ lectures' = [l \in DOMAIN lectures \cup {id} |->
                              IF l = id THEN NewLecture(s) ELSE lectures[l]]
           /\ Return(r, [s EXCEPT !.dirty = TRUE], "created", <<>>)
    /\ created' = created + 1
    /\ UNCHANGED <<enrollments, wvars, rvars, nreq>>

-----------------------------------------------------------------------------
(* updateLecture and deleteLecture *)

\* FindLecture without its authorization check
FindLecture_NoAuthCheck(r, next) ==
    LET s == slots[r]
    IN  IF ~IsObjectId(s.param)
        THEN Return(r, s, "serverError", <<>>)
        ELSE IF s.param \notin DOMAIN lectures
        THEN Return(r, s, "notFound", <<>>)
        ELSE Await(r, [s EXCEPT !.found = TRUE, !.doc = lectures[s.param]], next)

\* Lecture.findById(id).populate(section.course), then the checks;
\* shared by updateLecture and deleteLecture
FindLecture(r, next) ==
    LET s == slots[r]
    IN  IF ~IsObjectId(s.param)
        THEN Return(r, s, "serverError", <<>>)
        ELSE IF s.param \notin DOMAIN lectures
        THEN Return(r, s, "notFound", <<>>)
        ELSE LET f == [s EXCEPT !.found = TRUE, !.doc = lectures[s.param]]
                 course == Sections[lectures[s.param].section].course
             IN  IF ~IsInstructorOrAdmin(course, s.user[1])
                 THEN Return(r, f, "forbidden", <<>>)
                 ELSE Await(r, f, next)

updateLecture(r, u, id, b) ==
    /\ Accept(r)
    /\ LET s == Frame("updateLecture", <<u>>, id, b, <<>>)
       IN  IF ~updateLectureSchema(b)
           THEN Return(r, s, "badRequest", <<>>)
           ELSE Await(r, s, "update_find")
    /\ UNCHANGED <<lectures, created, enrollments, wvars, rvars>>

updateLecture_find(r) ==
    /\ slots[r].pc = "update_find"
    /\ FindLecture(r, "update_save")
    /\ UNCHANGED <<lectures, created, enrollments, wvars, rvars, nreq>>

\* the paths lecture.save() writes: those assigned a value other than the one read
Assign(stored, read, b) ==
    [stored EXCEPT
        !.title = IF Len(b.title) = 1 /\ b.title[1] # read.title
                  THEN b.title[1] ELSE @,
        !.videoUrl = IF Len(b.videoUrl) = 1 /\ b.videoUrl # read.videoUrl
                     THEN b.videoUrl ELSE @,
        !.duration = IF Len(b.duration) = 1 /\ b.duration # read.duration
                     THEN b.duration ELSE @,
        !.isPreview = IF Len(b.isPreview) = 1 /\ b.isPreview[1] # read.isPreview
                      THEN b.isPreview[1] ELSE @,
        !.order = IF Len(b.order) = 1 /\ b.order[1] # read.order
                  THEN b.order[1] ELSE @]

\* lecture.save(): rejects when the document is gone
updateLecture_save(r) ==
    /\ slots[r].pc = "update_save"
    /\ LET s == slots[r]
       IN  IF s.param \notin DOMAIN lectures
           THEN /\ Return(r, s, "serverError", <<>>)
                /\ UNCHANGED lectures
           ELSE LET new == Assign(lectures[s.param], s.doc, s.body)
                IN  /\ lectures' = [lectures EXCEPT ![s.param] = new]
                    /\ Return(r, [s EXCEPT !.dirty = (new # lectures[s.param])],
                              "success", <<>>)
    /\ UNCHANGED <<created, enrollments, wvars, rvars, nreq>>

deleteLecture(r, u, id) ==
    /\ Accept(r)
    /\ Await(r, Frame("deleteLecture", <<u>>, id, NoBody, <<>>), "delete_find")
    /\ UNCHANGED <<lectures, created, enrollments, wvars, rvars>>

deleteLecture_find(r) ==
    /\ slots[r].pc = "delete_find"
    /\ FindLecture(r, "delete_remove")
    /\ UNCHANGED <<lectures, created, enrollments, wvars, rvars, nreq>>

\* Lecture.findByIdAndDelete(id)
deleteLecture_delete(r) ==
    /\ slots[r].pc = "delete_remove"
    /\ LET s == slots[r]
       IN  /\ lectures' = [l \in DOMAIN lectures \ {s.param} |-> lectures[l]]
           /\ Return(r, [s EXCEPT !.dirty = (s.param \in DOMAIN lectures)],
                     "success", <<>>)
    /\ UNCHANGED <<created, enrollments, wvars, rvars, nreq>>

-----------------------------------------------------------------------------
(* reorderLectures *)

reorderLectures(r, u, sid, ids) ==
    /\ Accept(r)
    /\ LET s == Frame("reorderLectures", <<u>>, sid, NoBody, ids)
       IN  IF ~reorderSchema(ids)
           THEN Return(r, s, "badRequest", <<>>)
           ELSE Await(r, s, "reorder_section")
    /\ UNCHANGED <<lectures, created, enrollments, wvars, rvars>>

\* Section.findById(sectionId).populate('course'), the checks, and
\* lectureIds.map(...): every findByIdAndUpdate is issued at once
reorderLectures_findSection(r) ==
    /\ slots[r].pc = "reorder_section"
    /\ LET s == slots[r]
           f == [s EXCEPT !.found = TRUE]
       IN  IF ~IsObjectId(s.param)
           THEN Return(r, s, "serverError", <<>>)
           ELSE IF s.param \notin DOMAIN Sections
           THEN Return(r, s, "notFound", <<>>)
           ELSE IF ~IsInstructorOrAdmin(Sections[s.param].course, s.user[1])
           THEN Return(r, f, "forbidden", <<>>)
           ELSE Await(r, [f EXCEPT !.pending = 1..Len(s.ids)], "reorder_update")
    /\ UNCHANGED <<lectures, created, enrollments, wvars, rvars, nreq>>

\* what the frame does once one of its updates has settled: Promise.all
\* rejects on the first rejection, and resolves when every update resolved
Settled(s) ==
    IF s.pending # {} THEN s
    ELSE IF s.rejected THEN Idle
    ELSE [s EXCEPT !.pc = "reorder_find"]

\* Lecture.findByIdAndUpdate(lectureIds[i-1], { order: i-1 }); the updates of
\* one request settle in any sequence
reorderLectures_update(r) ==
    /\ slots[r].pc = "reorder_update"
    /\ \E i \in slots[r].pending :
       LET s  == slots[r]
           id == s.ids[i]
           p  == [s EXCEPT !.pending = @ \ {i}]
       IN  IF ~IsObjectId(id)
           THEN \* CastError: the await throws once, the catch block answers
                /\ UNCHANGED lectures
                /\ IF s.rejected
                   THEN /\ slots' = [slots EXCEPT ![r] = Settled(p)]
                        /\ UNCHANGED last
                   ELSE LET q == [p EXCEPT !.rejected = TRUE, !.sent = @ + 1]
                        IN  /\ Send(q, "serverError", <<>>)
                            /\ slots' = [slots EXCEPT ![r] = Settled(q)]
           ELSE IF id \notin DOMAIN lectures
           THEN /\ UNCHANGED <<lectures, last>>
                /\ slots' = [slots EXCEPT ![r] = Settled(p)]
           ELSE /\ lectures' = [lectures EXCEPT ![id].order = i - 1]
                /\ slots' = [slots EXCEPT ![r] =
                       Settled([p EXCEPT !.dirty = @ \/ lectures[id].order # i - 1])]
                /\ UNCHANGED last
    /\ UNCHANGED <<created, enrollments, wvars, rvars, nreq>>

\* Lecture.find({ section: sectionId }).sort({ order: 1 })
reorderLectures_find(r) ==
    /\ slots[r].pc = "reorder_find"
    /\ \E res \in SortedLectures(slots[r].param) :
          Return(r, slots[r], "success", res)
    /\ UNCHANGED <<lectures, created, enrollments, wvars, rvars, nreq>>

-----------------------------------------------------------------------------
(* The lecture controller under concurrent requests *)

InitialLectures ==
    [l \in {"l1", "l2", "l3"} |->
        [section |-> IF l = "l3" THEN "s2" ELSE "s1",
         title |-> Title, videoUrl |-> <<>>, duration |-> <<>>,
         isPreview |-> (l = "l1"),
         order |-> IF l = "l2" THEN 1 ELSE 0]]

Init ==
    /\ lectures = InitialLectures
    /\ created = 0
    /\ enrollments = {<<"stu1", "c1">>}
    /\ slots = [r \in Slots |-> Idle]
    /\ last = NoResponse
    /\ nreq = 0
    /\ NoWishlistRequests
    /\ NoRouterRequests

Writers == Instructors \cup Admins

Next ==
    \/ \E r \in Slots, u \in Writers, sid \in SectionParams, b \in CreateBodies :
          createLecture(r, u, sid, b)
    \/ \E r \in Slots : createLecture_findSection(r)
    \/ \E r \in Slots : createLecture_findLast(r)
    \/ \E r \in Slots : createLecture_create(r)
    \/ \E r \in Slots, u \in Writers, id \in LectureParams, b \in UpdateBodies :
          updateLecture(r, u, id, b)
    \/ \E r \in Slots : updateLecture_find(r)
    \/ \E r \in Slots : updateLecture_save(r)
    \/ \E r \in Slots, u \in Writers, id \in LectureParams : deleteLecture(r, u, id)
    \/ \E r \in Slots : deleteLecture_find(r)
    \/ \E r \in Slots : deleteLecture_delete(r)
    \/ \E r \in Slots, u \in Writers, sid \in SectionParams, ids \in ReorderLists :
          reorderLectures(r, u, sid, ids)
    \/ \E r \in Slots : reorderLectures_findSection(r)
    \/ \E r \in Slots : reorderLectures_update(r)
    \/ \E r \in Slots : reorderLectures_find(r)

Spec == Init /\ [][Next]_vars

-----------------------------------------------------------------------------
(* getLecture *)

\* req.user is absent (<<>>) on a request that carries no valid token
Requesters == {<<>>} \cup {<<u>> : u \in Instructors \cup Admins \cup Students}

getLecture(r, u, id) ==
    /\ Accept(r)
    /\ Await(r, Frame("getLecture", u, id, NoBody, <<>>), "get_find")
    /\ UNCHANGED <<lectures, created, enrollments, wvars, rvars>>

\* Lecture.findById(id).populate(section.course), then the access checks
getLecture_find(r) ==
    /\ slots[r].pc = "get_find"
    /\ LET s == slots[r]
       IN  IF ~IsObjectId(s.param)
           THEN Return(r, s, "serverError", <<>>)
           ELSE IF s.param \notin DOMAIN lectures
           THEN Return(r, s, "notFound", <<>>)
           ELSE LET f == [s EXCEPT !.found = TRUE, !.doc = lectures[s.param]]
                    course == Sections[f.doc.section].course
                IN  IF /\ ~Courses[course].published \/ ~f.doc.isPreview
                       /\ \/ s.user = <<>>
                          \/ ~IsInstructorOrAdmin(course, s.user[1])
                    THEN Await(r, f, "get_enrollment")
                    ELSE Return(r, f, "success", <<>>)
    /\ UNCHANGED <<lectures, created, enrollments, wvars, rvars, nreq>>

\* the documents Enrollment.findOne({ user: req.user?._id, course }) can
\* resolve to.  With req.user absent the user key is undefined: Mongoose
\* documents that such a key does not restrict the query (strip), while a
\* driver that serialises undefined as null matches no enrollment.
EnrollmentMatches(u, course, strip) ==
    IF u = <<>>
    THEN IF strip THEN {e \in enrollments : e[2] = course} ELSE {}
    ELSE {e \in enrollments : e[1] = u[1] /\ e[2] = course}

getLecture_findEnrollment(r) ==
    /\ slots[r].pc = "get_enrollment"
    /\ LET s == slots[r]
           course == Sections[s.doc.section].course
       IN  \E strip \in BOOLEAN :
              IF EnrollmentMatches(s.user, course, strip) = {}
              THEN Return(r, s, "forbidden", <<>>)
              ELSE Return(r, s, "success", <<>>)
    /\ UNCHANGED <<lectures, created, enrollments, wvars, rvars, nreq>>

\* the stores getLecture is read against
InitGet ==
    /\ \E p \in BOOLEAN :
          lectures = [InitialLectures EXCEPT !["l3"].isPreview = p]
    /\ created = 0
    /\ enrollments \in SUBSET {<<"stu1", "c1">>, <<"stu1", "c2">>}
    /\ slots = [r \in Slots |-> Idle]
    /\ last = NoResponse
    /\ nreq = 0
    /\ NoWishlistRequests
    /\ NoRouterRequests

NextGet ==
    \/ \E r \in Slots, u \in Requesters, id \in LectureParams \cup {"l3"} :
          getLecture(r, u, id)
    \/ \E r \in Slots : getLecture_find(r)
    \/ \E r \in Slots : getLecture_findEnrollment(r)

SpecGet == InitGet /\ [][NextGet]_vars

-----------------------------------------------------------------------------
(* The wishlist controller *)

\* wishlist requests received in one behaviour
MaxWishRequests == 3

WSlots == {1, 2}

\* _id of the k-th Wishlist document inserted by Wishlist.create
WishlistIds == <<"w1", "w2", "w3", "w4", "w5", "w6">>

\* courseId of an addToWishlist body: absent, empty, no ObjectId, the id of
\* no course, the id of a course
AddBodies == {<<>>, <<"">>, <<"bad">>, <<"c9">>, <<"c1">>, <<"c2">>}

\* :courseId of removeFromWishlist
CourseParams == {"bad", "c9", "c1", "c2"}

\* the Wishlist schema keeps one document per user (a unique index on user)
UserIsUnique == TRUE

\* z.object({ courseId: z.string().min(1) })
addToWishlistSchema(b) == Len(b) = 1 /\ b[1] # ""

WIdle ==
    [pc |-> "idle", handler |-> "none", user |-> "", courseId |-> <<>>,
     wishlist |-> <<>>, wid |-> "", dirty |-> FALSE, sent |-> 0]

NoWishResponse == [req |-> WIdle, resp |-> "none", result |-> <<>>]

WFrame(h, u, c) == [WIdle EXCEPT !.handler = h, !.user = u, !.courseId = c]

WReturn(r, s, kind, res) ==
    /\ wlast' = [req |-> [s EXCEPT !.sent = s.sent + 1], resp |-> kind, result |-> res]
    /\ wslots' = [wslots EXCEPT ![r] = WIdle]

WAwait(r, s, pc) ==
    /\ wslots' = [wslots EXCEPT ![r] = [s EXCEPT !.pc = pc]]
    /\ UNCHANGED wlast

\* a request arrives and gets the first free frame
WAccept(r) ==
    /\ wslots[r].pc = "idle"
    /\ \A q \in WSlots : wslots[q].pc = "idle" => r <= q
    /\ Cardinality({q \in WSlots : wslots[q].pc # "idle"}) < maxInflight
    /\ wreq < MaxWishRequests
    /\ wreq' = wreq + 1

\* the documents Wishlist.findOne({ user }) can resolve to
UserWishlists(u) == {w \in DOMAIN wishlists : wishlists[w].user = u}

\* wishlist.courses.includes(courseId): MongooseArray compares the ids as strings
Includes(courses, c) == \E i \in 1..Len(courses) : courses[i] = c

\* Filter that drops the last course instead of the one named
Filter_DropLast(courses, c) == SubSeq(courses, 1, Len(courses) - 1)

\* wishlist.courses.filter((id) => id.toString() !== courseId)
Filter(courses, c) == SelectSeq(courses, LAMBDA id : id # c)

\* the local copy of a document a query resolved to
Local(w) == <<[id |-> w, courses |-> wishlists[w].courses, v |-> wishlists[w].v]>>

addToWishlist(r, u, b) ==
    /\ WAccept(r)
    /\ LET s == WFrame("addToWishlist", u, b)
       IN  IF ~addToWishlistSchema(b)
           THEN WReturn(r, s, "badRequest", <<>>)
           ELSE WAwait(r, s, "add_course")
    /\ UNCHANGED <<wishlists, maxInflight, lvars, rvars>>

\* Course.findById(courseId)
addToWishlist_findCourse(r) ==
    /\ wslots[r].pc = "add_course"
    /\ LET s == wslots[r]
       IN  IF ~IsObjectId(s.courseId[1])
           THEN WReturn(r, s, "serverError", <<>>)
           ELSE IF s.courseId[1] \notin DOMAIN Courses
           THEN WReturn(r, s, "notFound", <<>>)
           ELSE WAwait(r, s, "add_wishlist")
    /\ UNCHANGED <<wishlists, maxInflight, wreq, lvars, rvars>>

\* Wishlist.findOne({ user: req.user._id }), then the duplicate check
addToWishlist_findWishlist(r) ==
    /\ wslots[r].pc = "add_wishlist"
    /\ LET s == wslots[r]
       IN  IF UserWishlists(s.user) = {}
           THEN WAwait(r, s, "add_create")
           ELSE \E w \in UserWishlists(s.user) :
                   LET f == [s EXCEPT !.wishlist = Local(w), !.wid = w]
                   IN  IF Includes(wishlists[w].courses, s.courseId[1])
                       THEN WReturn(r, f, "conflict", <<>>)
                       ELSE WAwait(r, f, "add_save")
    /\ UNCHANGED <<wishlists, maxInflight, wreq, lvars, rvars>>

\* Wishlist.create({ user, courses: [courseId] }): a unique index on user
\* rejects a second document of the user
addToWishlist_create(r) ==
    /\ wslots[r].pc = "add_create"
    /\ Cardinality(DOMAIN wishlists) < Len(WishlistIds)
    /\ LET s == wslots[r]
           w == WishlistIds[Cardinality(DOMAIN wishlists) + 1]
       IN  IF UserIsUnique /\ UserWishlists(s.user) # {}
           THEN /\ WReturn(r, s, "serverError", <<>>)
                /\ UNCHANGED wishlists
           ELSE /\ wishlists' = [x \in DOMAIN wishlists \cup {w} |->
                                    IF x = w
                                    THEN [user |-> s.user, courses |-> s.courseId, v |-> 0]
                                    ELSE wishlists[x]]
                /\ WAwait(r, [s EXCEPT !.wid = w, !.dirty = TRUE], "add_populate")
    /\ UNCHANGED <<maxInflight, wreq, lvars, rvars>>

\* wishlist.courses.push(courseId); wishlist.save(): the push is sent as a
\* $push of the one id, which appends to the stored array
addToWishlist_save(r) ==
    /\ wslots[r].pc = "add_save"
    /\ LET s == wslots[r]
       IN  /\ wishlists' = [wishlists EXCEPT
                              ![s.wid].courses = Append(@, s.courseId[1]),
                              ![s.wid].v = @ + 1]
           /\ WAwait(r, [s EXCEPT !.dirty = TRUE], "add_populate")
    /\ UNCHANGED <<maxInflight, wreq, lvars, rvars>>

\* Wishlist.findById(wishlist._id).populate(...)
addToWishlist_populate(r) ==
    /\ wslots[r].pc = "add_populate"
    /\ WReturn(r, wslots[r], "created", wishlists[wslots[r].wid].courses)
    /\ UNCHANGED <<wishlists, maxInflight, wreq, lvars, rvars>>

removeFromWishlist(r, u, c) ==
    /\ WAccept(r)
    /\ WAwait(r, WFrame("removeFromWishlist", u, <<c>>), "remove_find")
    /\ UNCHANGED <<wishlists, maxInflight, lvars, rvars>>

\* Wishlist.findOne({ user: req.user._id }), then the membership check
removeFromWishlist_find(r) ==
    /\ wslots[r].pc = "remove_find"
    /\ LET s == wslots[r]
       IN  IF UserWishlists(s.user) = {}
           THEN WReturn(r, s, "notFound", <<>>)
           ELSE \E w \in UserWishlists(s.user) :
                   LET f == [s EXCEPT !.wishlist = Local(w), !.wid = w]
                   IN  IF ~Includes(wishlists[w].courses, s.courseId[1])
                       THEN WReturn(r, f, "notFound", <<>>)
                       ELSE WAwait(r, f, "remove_save")
    /\ UNCHANGED <<wishlists, maxInflight, wreq, lvars, rvars>>

\* wishlist.save() after courses was assigned: the whole array is $set under
\* the version the document was read at (VersionError when it has moved on);
\* an assignment of an equal array marks nothing modified and writes nothing
SaveCourses(r, courses) ==
    LET s == wslots[r]
        read == s.wishlist[1]
    IN  IF courses = read.courses
        THEN /\ WReturn(r, s, "success", <<>>)
             /\ UNCHANGED wishlists
        ELSE IF wishlists[s.wid].v # read.v
        THEN /\ WReturn(r, s, "serverError", <<>>)
             /\ UNCHANGED wishlists
        ELSE /\ wishlists' = [wishlists EXCEPT
                                ![s.wid].courses = courses,
                                ![s.wid].v = @ + 1]
             /\ WReturn(r, [s EXCEPT !.dirty = TRUE], "success", <<>>)

removeFromWishlist_save(r) ==
    /\ wslots[r].pc = "remove_save"
    /\ SaveCourses(r, Filter(wslots[r].wishlist[1].courses, wslots[r].courseId[1]))
    /\ UNCHANGED <<maxInflight, wreq, lvars, rvars>>

clearWishlist(r, u) ==
    /\ WAccept(r)
    /\ WAwait(r, WFrame("clearWishlist", u, <<>>), "clear_find")
    /\ UNCHANGED <<wishlists, maxInflight, lvars, rvars>>

\* Wishlist.findOne({ user: req.user._id })
clearWishlist_find(r) ==
    /\ wslots[r].pc = "clear_find"
    /\ LET s == wslots[r]
       IN  IF UserWishlists(s.user) = {}
           THEN WReturn(r, s, "success", <<>>)
           ELSE \E w \in UserWishlists(s.user) :
                   WAwait(r, [s EXCEPT !.wishlist = Local(w), !.wid = w], "clear_save")
    /\ UNCHANGED <<wishlists, maxInflight, wreq, lvars, rvars>>

clearWishlist_save(r) ==
    /\ wslots[r].pc = "clear_save"
    /\ SaveCourses(r, <<>>)
    /\ UNCHANGED <<maxInflight, wreq, lvars, rvars>>

WUsers == {"stu1", "stu2"}

InitWishlistStore ==
    /\ wishlists = <<>>
    /\ wslots = [r \in WSlots |-> WIdle]
    /\ wlast = NoWishResponse
    /\ wreq = 0
    /\ NoLectureRequests
    /\ NoRouterRequests

\* requests of concurrent clients
InitWishlist == InitWishlistStore /\ maxInflight = 2

\* one request at a time
InitWishlistSerial == InitWishlistStore /\ maxInflight = 1

NextWishlist ==
    \/ \E r \in WSlots, u \in WUsers, b \in AddBodies : addToWishlist(r, u, b)
    \/ \E r \in WSlots : addToWishlist_findCourse(r)
    \/ \E r \in WSlots : addToWishlist_findWishlist(r)
    \/ \E r \in WSlots : addToWishlist_create(r)
    \/ \E r \in WSlots : addToWishlist_save(r)
    \/ \E r \in WSlots : addToWishlist_populate(r)
    \/ \E r \in WSlots, u \in WUsers, c \in CourseParams : removeFromWishlist(r, u, c)
    \/ \E r \in WSlots : removeFromWishlist_find(r)
    \/ \E r \in WSlots : removeFromWishlist_save(r)
    \/ \E r \in WSlots, u \in WUsers : clearWishlist(r, u)
    \/ \E r \in WSlots : clearWishlist_find(r)
    \/ \E r \in WSlots : clearWishlist_save(r)

SpecWishlist == InitWishlist /\ [][NextWishlist]_vars

SpecWishlistSerial == InitWishlistSerial /\ [][NextWishlist]_vars

-----------------------------------------------------------------------------
(* The enrollment router *)

\* longest request path, in segments
MaxPathLen == 3

Methods == {"GET", "POST", "DELETE", "PATCH"}
Segments == {"my", "check", "course", "complete", "c1"}

\* the paths below the router's mount point, as their segments
Paths == UNION {[1..k -> Segments] : k \in 0..MaxPathLen}

\* what the request's token proves: nothing (<<>>), or a user of some role
Credentials == {<<>>, <<"student">>, <<"instructor">>, <<"admin">>}

Controllers ==
    {"enrollCourse", "getMyEnrollments", "getEnrollment", "checkEnrollment",
     "unenrollCourse", "getCourseEnrollments", "markCourseCompleted"}

Use(h) == [method |-> "*", path |-> <<>>, handlers |-> <<h>>]
Route(m, p, hs) == [method |-> m, path |-> p, handlers |-> hs]

\* Stack with GET /:courseId registered ahead of GET /my
Stack_ParamRouteFirst ==
    << Use("authenticate"),
       Route("POST", <<>>, <<"enrollCourse">>),
       Route("GET", <<":courseId">>, <<"getEnrollment">>),
       Route("GET", <<"my">>, <<"getMyEnrollments">>),
       Route("GET", <<"check", ":courseId">>, <<"checkEnrollment">>),
       Route("DELETE", <<":courseId">>, <<"unenrollCourse">>),
       Route("PATCH", <<":courseId", "complete">>, <<"markCourseCompleted">>),
       Route("GET", <<"course", ":courseId">>, <<"authorize", "getCourseEnrollments">>) >>

\* the router's layers, in the order they are registered
Stack ==
    << Use("authenticate"),
       Route("POST", <<>>, <<"enrollCourse">>),
       Route("GET", <<"my">>, <<"getMyEnrollments">>),
       Route("GET", <<"check", ":courseId">>, <<"checkEnrollment">>),
       Route("GET", <<":courseId">>, <<"getEnrollment">>),
       Route("DELETE", <<":courseId">>, <<"unenrollCourse">>),
       Route("PATCH", <<":courseId", "complete">>, <<"markCourseCompleted">>),
       Route("GET", <<"course", ":courseId">>, <<"authorize", "getCourseEnrollments">>) >>

\* authorize('instructor', 'admin')
AuthorizedRoles == {"instructor", "admin"}

\* a route's path matches segment by segment, a :parameter matching any one
\* segment; a use() layer without a path matches every request
Matches(l, m, p) ==
    IF l.method = "*" THEN TRUE
    ELSE /\ l.method = m
         /\ Len(l.path) = Len(p)
         /\ \A i \in 1..Len(p) : l.path[i] = ":courseId" \/ l.path[i] = p[i]

\* authenticate: a request without a valid token is answered 401 and goes
\* no further
authenticate(cred) == cred # <<>>

\* authorize(...roles): the user's role must be one of roles
authorize(cred) == cred # <<>> /\ cred[1] \in AuthorizedRoles

\* the handlers of a matched route run in sequence: a middleware either
\* answers or calls next(); a controller answers
RECURSIVE RunHandlers(_, _, _)
RunHandlers(hs, cred, done) ==
    IF hs = <<>> THEN [ran |-> done, status |-> ""]
    ELSE LET h == Head(hs)
         IN  IF h = "authenticate"
             THEN IF authenticate(cred)
                  THEN RunHandlers(Tail(hs), cred, Append(done, h))
                  ELSE [ran |-> Append(done, h), status |-> "401"]
             ELSE IF h = "authorize"
             THEN IF authorize(cred)
                  THEN RunHandlers(Tail(hs), cred, Append(done, h))
                  ELSE [ran |-> Append(done, h), status |-> "403"]
             ELSE [ran |-> Append(done, h), status |-> "handled"]

\* the layer at hand does not match: the router tries the next one
router_skip ==
    /\ status = "" /\ layer <= Len(Stack)
    /\ ~Matches(Stack[layer], req.method, req.path)
    /\ layer' = layer + 1
    /\ UNCHANGED <<req, ran, status, lvars, wvars>>

\* the layer at hand matches: its handlers run
router_handle ==
    /\ status = "" /\ layer <= Len(Stack)
    /\ Matches(Stack[layer], req.method, req.path)
    /\ LET out == RunHandlers(Stack[layer].handlers, req.cred, ran)
       IN  /\ ran' = out.ran
           /\ status' = out.status
           /\ layer' = IF out.status = "" THEN layer + 1 ELSE layer
    /\ UNCHANGED <<req, lvars, wvars>>

\* no layer is left: the request leaves the router unanswered (a 404)
router_done ==
    /\ status = "" /\ layer > Len(Stack)
    /\ status' = "404"
    /\ UNCHANGED <<req, layer, ran, lvars, wvars>>

InitRouter ==
    /\ req \in [method : Methods, path : Paths, cred : Credentials]
    /\ layer = 1
    /\ ran = <<>>
    /\ status = ""
    /\ NoLectureRequests
    /\ NoWishlistRequests

NextRouter == router_skip \/ router_handle \/ router_done

SpecRouter == InitRouter /\ [][NextRouter]_vars

\* C5: no enrollment controller runs for a request that did not pass
\* authenticate; getCourseEnrollments runs only for an instructor or an
\* admin; and GET /my and GET /check/:courseId are dispatched to
\* getMyEnrollments and checkEnrollment, never to getEnrollment.
C5_RouterGates ==
    /\ \A i \in 1..Len(ran) :
          ran[i] \in Controllers =>
              /\ req.cred # <<>>
              /\ \E j \in 1..(i - 1) : ran[j] = "authenticate"
    /\ (\E i \in 1..Len(ran) : ran[i] = "getCourseEnrollments")
          => req.cred \in {<<"instructor">>, <<"admin">>}
    /\ (req.method = "GET" /\ req.path = <<"my">>) =>
          /\ \A i \in 1..Len(ran) : ran[i] # "getEnrollment"
          /\ (status # "" /\ req.cred # <<>>)
                => ran = <<"authenticate", "getMyEnrollments">>
    /\ (req.method = "GET" /\ Len(req.path) = 2 /\ req.path[1] = "check") =>
          /\ \A i \in 1..Len(ran) : ran[i] # "getEnrollment"
          /\ (status # "" /\ req.cred # <<>>)
                => ran = <<"authenticate", "checkEnrollment">>

\* GET /my of an authenticated student has been answered by getMyEnrollments
C5_Witness ==
    /\ req = [method |-> "GET", path |-> <<"my">>, cred |-> <<"student">>]
    /\ status = "handled"
    /\ ran = <<"authenticate", "getMyEnrollments">>

-----------------------------------------------------------------------------
(* Properties of the wishlist controller *)

NoDuplicates(courses) ==
    \A i, j \in 1..Len(courses) : i # j => courses[i] # courses[j]

\* C2: in every reachable state each user has at most one wishlist document,
\* and its courses array holds each course id at most once, however the
\* addToWishlist, removeFromWishlist and clearWishlist requests interleave.
C2_OneWishlistUniqueCourses ==
    /\ \A u \in WUsers : Cardinality(UserWishlists(u)) <= 1
    /\ \A w \in DOMAIN wishlists : NoDuplicates(wishlists[w].courses)

\* the step is one of wishlist frame r
WActs(r) == wslots'[r] # wslots[r]

\* courses without c, the others in their order
Without(courses, c) == SelectSeq(courses, LAMBDA x : x # c)

\* the courses of the user's wishlist as stored now (none: no courses)
CoursesOf(u) ==
    IF UserWishlists(u) = {} THEN <<>>
    ELSE wishlists[CHOOSE w \in UserWishlists(u) : TRUE].courses

C8_Answered ==
    LET q == wlast.req
        had == q.wishlist # <<>>
        before == IF had THEN q.wishlist[1].courses ELSE <<>>
        now == CoursesOf(q.user)
    IN  ((\A r \in WSlots : wslots[r].pc = "idle") /\ wlast.resp # "none") =>
            /\ (q.handler = "addToWishlist" /\ Len(q.courseId) = 1
                  /\ q.courseId[1] \in {"c1", "c2", "c9"}) =>
                  LET c == q.courseId[1]
                  IN  IF c \notin DOMAIN Courses
                      THEN wlast.resp = "notFound"
                      ELSE IF \E i \in 1..Len(before) : before[i] = c
                      THEN wlast.resp = "conflict" /\ now = before
                      ELSE /\ wlast.resp = "created"
                           /\ now = before \o <<c>>
                           /\ wlast.result = now
            /\ q.handler = "removeFromWishlist" =>
                  LET c == q.courseId[1]
                  IN  IF ~had \/ ~(\E i \in 1..Len(before) : before[i] = c)
                      THEN wlast.resp = "notFound" /\ now = before
                      ELSE /\ wlast.resp = "success"
                           /\ now = Without(before, c)
                           /\ LET x == SubSeq(before, 1, Len(before) - 1)
                              IN  (before = x \o <<c>> /\ NoDuplicates(before))
                                      => now = x

\* the steps of a request that come before its write, and the step after it
C8_ReadOnly(r) ==
    (WActs(r) /\ wslots[r].pc \in {"idle", "add_course", "add_wishlist",
                                   "add_populate", "remove_find"})
        => UNCHANGED wishlists

-----------------------------------------------------------------------------
(* Properties of the lecture controller *)

\* the step is one of frame r
Acts(r) == slots'[r] # slots[r]

WriteHandlers == {"createLecture", "updateLecture", "deleteLecture", "reorderLectures"}
SectionHandlers == {"createLecture", "reorderLectures"}

\* the user is the instructor of the course, or an admin
MayWrite(u, course) == Courses[course].instructor = u \/ u \in Admins

\* the course a lecture belongs to through its section, before or after the step
CourseOfLecture(l) ==
    Sections[(IF l \in DOMAIN lectures THEN lectures[l] ELSE lectures'[l]).section].course

\* the course of the section or lecture a frame has looked up
CourseOfTarget(q) ==
    IF q.handler \in SectionHandlers
    THEN Sections[q.param].course
    ELSE Sections[q.doc.section].course

BodyFails(q) ==
    \/ q.handler = "createLecture" /\
          ~(/\ Len(q.body.title) = 1 /\ Len(q.body.title[1]) >= 3
            /\ Len(q.body.videoUrl) = 1 => q.body.videoUrl[1] = "https://cdn.example/v1.mp4"
            /\ Len(q.body.duration) = 1 => q.body.duration[1] >= 0
            /\ Len(q.body.order) = 1 => q.body.order[1] >= 0)
    \/ q.handler = "updateLecture" /\
          ~(/\ Len(q.body.title) = 1 => Len(q.body.title[1]) >= 3
            /\ Len(q.body.videoUrl) = 1 => q.body.videoUrl[1] = "https://cdn.example/v1.mp4"
            /\ Len(q.body.duration) = 1 => q.body.duration[1] >= 0
            /\ Len(q.body.order) = 1 => q.body.order[1] >= 0)
    \/ q.handler = "reorderLectures" /\ q.ids = <<>>

C1_Forbidden ==
    LET q == last.req
    IN  (/\ last.resp # "none"
         /\ q.handler \in WriteHandlers
         /\ ~BodyFails(q)
         /\ q.found
         /\ ~MayWrite(q.user[1], CourseOfTarget(q)))
        => last.resp = "forbidden"

\* C1: a lecture is created, changed in any field, or deleted only by a step
\* of a request whose user is the instructor of the course the lecture belongs
\* to (through its section) or an admin; a request of any other user on an
\* existing target is answered 'forbidden'.
C1_WritesOnlyByInstructorOrAdmin ==
    /\ [][\A l \in DOMAIN lectures \cup DOMAIN lectures' :
            (\/ l \notin DOMAIN lectures
             \/ l \notin DOMAIN lectures'
             \/ lectures'[l] # lectures[l])
            => \E r \in Slots :
                  /\ Acts(r)
                  /\ Len(slots[r].user) = 1
                  /\ MayWrite(slots[r].user[1], CourseOfLecture(l))]_vars
    /\ []C1_Forbidden

C3_Accept(r) ==
    (slots[r].pc = "idle" /\ Acts(r)) =>
        LET h == IF slots'[r].pc = "idle" THEN last'.req.handler ELSE slots'[r].handler
        IN  h \in WriteHandlers =>
              IF slots'[r].pc = "idle"
              THEN BodyFails(last'.req) /\ last'.resp = "badRequest" /\ last'.req.sent = 1
              ELSE ~BodyFails(slots'[r]) /\ UNCHANGED last

C3_Find(r) ==
    LET s == slots[r]
        section == s.pc \in {"create_section", "reorder_section"}
        lecture == s.pc \in {"update_find", "delete_find"}
        exists == IF section THEN s.param \in DOMAIN Sections
                  ELSE s.param \in DOMAIN lectures
        course == IF section THEN Sections[s.param].course
                  ELSE Sections[lectures[s.param].section].course
    IN  ((section \/ lecture) /\ Acts(r) /\ IsObjectId(s.param)) =>
            IF ~exists
            THEN last'.resp = "notFound" /\ last'.req.sent = 1 /\ slots'[r] = Idle
            ELSE IF ~MayWrite(s.user[1], course)
            THEN last'.resp = "forbidden" /\ last'.req.sent = 1 /\ slots'[r] = Idle
            ELSE UNCHANGED last /\ slots'[r].pc # "idle"

C3_Answered ==
    LET q == last.req
    IN  (last.resp # "none" /\ q.handler \in WriteHandlers) =>
            /\ q.sent = 1
            /\ BodyFails(q) => last.resp = "badRequest"
            /\ last.resp \in {"notFound", "forbidden"} => ~BodyFails(q)
            /\ last.resp \in {"success", "created"} =>
                  /\ ~BodyFails(q)
                  /\ q.found
                  /\ MayWrite(q.user[1], CourseOfTarget(q))

C6_AutoOrderIsGreatest ==
    [][\A r \in Slots :
          (slots[r].pc = "create_insert" /\ Acts(r)) =>
              \A n \in DOMAIN lectures' \ DOMAIN lectures :
                  IF Len(slots[r].body.order) = 0
                  THEN \A l \in DOMAIN lectures :
                          lectures[l].section = lectures'[n].section
                              => lectures'[n].order > lectures[l].order
                  ELSE lectures'[n].order = slots[r].body.order[1]]_vars

\* C7: when reorderLectures answers 'success', the lecture lectureIds[i] has
\* order i (counting from 0) for every i, and the returned list is all
\* lectures of the section in ascending order, beginning with the lectures of
\* lectureIds in the sequence given.
C7_ReorderResult ==
    [][\A r \in Slots :
          (slots[r].pc = "reorder_find" /\ Acts(r)) =>
              LET ids == slots[r].ids
                  res == last'.result
              IN  /\ last'.resp = "success"
                  /\ \A i \in 1..Len(ids) :
                        ids[i] \in DOMAIN lectures /\ lectures[ids[i]].order = i - 1
                  /\ {res[k].id : k \in 1..Len(res)} = SectionLectures(slots[r].param)
                  /\ \A j, k \in 1..Len(res) : j < k => res[j].order <= res[k].order
                  /\ Len(res) >= Len(ids)
                  /\ \A i \in 1..Len(ids) : res[i].id = ids[i]]_vars

\* C9: a reorderLectures request for section sectionId leaves every lecture
\* outside that section as it was.
C9_ReorderFrame ==
    [][\A r \in Slots :
          (slots[r].pc = "reorder_update" /\ Acts(r)) =>
              \A l \in DOMAIN lectures :
                  lectures[l].section # slots[r].param
                      => l \in DOMAIN lectures' /\ lectures'[l] = lectures[l]]_vars

\* C10: a request answered with anything but 'success' or 'created' has
\* written nothing to the store.
C10_ErrorsWriteNothing ==
    last.resp \in {"badRequest", "notFound", "forbidden", "conflict", "serverError"}
        => ~last.req.dirty

====
